---- MODULE Spec2Model ----
(***************************************************************************)
(* Model of astro-control: the three entry points of the repository        *)
(*   plate_solver.py main(), camera/svbony_camera.py __main__ and           *)
(*   mount/ascom_telescope.py __main__                                      *)
(* driving an SVBonyCamera object and an AltAzTelescopeController object,   *)
(* together with the drivers (camera, mount, solve-field) they talk to.     *)
(* A fourth program, the client, calls the public methods of the two        *)
(* classes in any order.  A last part runs the capture and solve steps of   *)
(* several plate_solver.py sessions side by side in one working directory.  *)
(* Every driver call is a point where the driver may raise; every wait loop *)
(* is modelled poll by poll, the device finishing on its own schedule.      *)
(***************************************************************************)
EXTENDS Naturals, FiniteSets, Sequences, TLC

VARIABLES
    program,        \* which entry point runs
    cameraApi,      \* the SVBonyCamera class plate_solver.main is bound to
    pc,             \* control location of the running program
    exc,            \* exception in flight (pending through a finally), or "none"
    outcome,        \* how the program ended
    use_ascom,      \* SVBonyCamera.use_ascom
    camera,         \* SVBonyCamera.camera (the driver handle, or "None")
    connected,      \* SVBonyCamera.connected
    camConnected,   \* camera driver: Connected property / device opened
    exposing,       \* camera driver: an exposure was started and is not ready yet
    imageReady,     \* camera driver: ImageReady
    configured,     \* camera driver: which settings were applied
    gainSupported,  \* camera driver: the device has a gain control
    camOpen,        \* camera driver: number of handles connected / opened
    telescope,      \* AltAzTelescopeController.telescope (the driver handle, or "None")
    mntConnected,   \* mount driver: Connected property
    slewing,        \* mount driver: Slewing property
    mntPos,         \* mount: true pointing (altitude, azimuth)
    commanded,      \* mount: position of the last SlewToAltAz command, or NoPos
    target,         \* horizontal position of the configured target
    imageFile,      \* the capture's output file exists
    solved,         \* position returned by solve_image, NoPos while there is none
    solvedAt,       \* true pointing of the mount when solve_image returned
    printed,        \* the messages the program has printed
    calls,          \* history: number of calls of each operation
    callSeq,        \* history: the client's previous and current method call
    sessionPc,      \* concurrent sessions: control location of each session
    imageOf,        \* plate_solve_image.png: the session whose capture wrote it, 0 if absent
    wcsOf,          \* plate_solve_image.wcs: the session whose image it was solved from, 0 if absent
    solvedImage,    \* per session: whose image its solve-field run read, 0 before
    result          \* per session: whose image the position it got derives from, 0 before

vars == <<program, cameraApi, pc, exc, outcome, use_ascom, camera, connected,
          camConnected, exposing, imageReady, configured, telescope,
          mntConnected, slewing, mntPos, commanded, target, imageFile,
          solved, solvedAt, printed, calls, gainSupported, camOpen, callSeq,
          sessionPc, imageOf, wcsOf, solvedImage, result>>

camObj == <<use_ascom, camera, connected>>
camDrv == <<camConnected, exposing, imageReady, configured, camOpen>>
mntDrv == <<mntConnected, slewing, mntPos, commanded>>
solver == <<imageFile, solved, solvedAt>>
\* The concurrent sessions and the files of their working directory.
sessions == <<sessionPc, imageOf, wcsOf, solvedImage, result>>

\* What no statement of a method and no device changes.
fixed == <<program, cameraApi, target, gainSupported, callSeq, sessions>>

Programs == {"plate_solver", "svbony_camera", "ascom_telescope"}

\* Number of sessions running side by side.
NumSessions == 2

Sessions == 1 .. NumSessions

\* No concurrent sessions run.
NoSessions ==
    /\ sessionPc = [s \in Sessions |-> "off"]
    /\ imageOf = 0
    /\ wcsOf = 0
    /\ solvedImage = [s \in Sessions |-> 0]
    /\ result = [s \in Sessions |-> 0]

\* Horizontal positions <<altitude, azimuth>> in degrees.
Positions == {<<90, 180>>, <<45, 90>>, <<30, 270>>}

\* No position (Python's unbound / None).
NoPos == <<>>

Operations == {"connect_camera", "configure_camera", "capture_image",
               "solve_image", "slew_to_altaz", "disconnect_camera",
               "connect_to_telescope", "disconnect_telescope",
               "SlewToAltAz", "StartExposure", "camDisconnect", "mntDisconnect"}

\* Python exceptions: all but KeyboardInterrupt derive from Exception.
Exceptions == {"AttributeError", "ConnectionError", "FileNotFoundError",
               "KeyError", "DriverError", "KeyboardInterrupt"}

IsException(e) == e \in Exceptions \ {"KeyboardInterrupt"}

\* The altitude/azimuth the slew is commanded to.
SlewArgs == IF program = "plate_solver" THEN <<90, 180>> ELSE <<45, 90>>

Count(op) == [calls EXCEPT ![op] = @ + 1]

\* The statements of each program that sit inside its try block.
TryBlock ==
    CASE program = "plate_solver" ->
            {"configure_camera", "capture_image", "capture_poll", "capture_sleep",
             "capture_retrieve", "solve_image", "slew_to_altaz", "slew_poll",
             "slew_sleep"}
      [] program = "svbony_camera" ->
            {"connect_camera", "configure_camera", "capture_image", "capture_poll",
             "capture_sleep", "capture_retrieve"}
      [] program = "ascom_telescope" ->
            {"slew_to_altaz", "slew_poll", "slew_sleep"}

\* First statement of the program's finally block; the client has none, a
\* method returns to it.
Finally ==
    CASE program = "plate_solver" -> "close_camera"
      [] program = "svbony_camera" -> "disconnect_camera"
      [] program = "ascom_telescope" -> "disconnect_telescope"
      [] program = "client" -> "idle"

\* Exception e raised at the current statement and not caught inside the
\* method: inside a try block the finally block runs with e pending (the
\* camera program's `except Exception` swallows e first); elsewhere e leaves
\* the program.  The client gets e from its call.
Raise(e) ==
    IF program = "client"
    THEN /\ pc' = "idle"
         /\ exc' = e
         /\ UNCHANGED <<outcome, printed>>
    ELSE IF pc \in TryBlock
    THEN /\ pc' = Finally
         /\ exc' = IF program = "svbony_camera" /\ IsException(e) THEN "none" ELSE e
         /\ printed' = IF program = "svbony_camera" /\ IsException(e)
                       THEN printed \cup {"An error occurred"}
                       ELSE printed
         /\ outcome' = outcome
    ELSE /\ pc' = "done"
         /\ exc' = e
         /\ outcome' = "raised"
         /\ printed' = printed

\* Where a method returns to: statement p of the program, or the client.
Caller(p) == IF program = "client" THEN "idle" ELSE p

\* Normal continuation to statement p.
Goto(p) == pc' = p /\ UNCHANGED <<exc, outcome, printed>>

\* Normal continuation to statement p after printing msg.
GotoPrint(p, msg) ==
    /\ pc' = p
    /\ printed' = printed \cup {msg}
    /\ UNCHANGED <<exc, outcome>>

\* A connect answered False: plate_solver.py prints and returns (lines
\* 66-67), ascom_telescope.py skips its body (line 67).
InitFailed ==
    /\ pc' = Caller("done")
    /\ outcome' = IF program = "client" THEN outcome ELSE "init_failed"
    /\ exc' = exc
    /\ printed' = IF program = "plate_solver"
                  THEN printed \cup {"Initialization failed"}
                  ELSE printed

\* The program ends after its last statement: a pending exception is re-raised.
Finish ==
    /\ pc' = Caller("done")
    /\ exc' = exc
    /\ outcome' = CASE program = "client" -> outcome
                     [] exc = "none" -> "completed"
                     [] OTHER -> "raised"
    /\ printed' = IF program = "plate_solver"
                  THEN printed \cup {"Program finished"}
                  ELSE printed

Init ==
    /\ program \in Programs
    /\ cameraApi \in (IF program = "plate_solver" THEN {"src", "previous"} ELSE {"src"})
    /\ pc = CASE program = "plate_solver" -> "init_camera"
              [] program = "svbony_camera" -> "connect_camera"
              [] program = "ascom_telescope" -> "connect_to_telescope"
    /\ exc = "none"
    /\ outcome = "running"
    /\ use_ascom \in (IF program = "svbony_camera" THEN BOOLEAN ELSE {TRUE})
    /\ camera = "None"
    /\ connected = FALSE
    /\ camConnected = FALSE
    /\ exposing = FALSE
    /\ imageReady = FALSE
    /\ configured = "none"
    /\ telescope = "None"
    /\ mntConnected \in BOOLEAN
    /\ slewing = FALSE
    /\ mntPos \in Positions
    /\ commanded = NoPos
    /\ target \in (IF program = "plate_solver" THEN Positions ELSE {<<45, 90>>})
    /\ imageFile = FALSE
    /\ solved = NoPos
    /\ solvedAt = NoPos
    /\ printed = {}
    /\ calls = [op \in Operations |-> 0]
    /\ gainSupported \in BOOLEAN
    /\ camOpen = 0
    /\ callSeq = <<"none", "none">>
    /\ NoSessions

(***************************************************************************)
(* SVBonyCamera                                                            *)
(***************************************************************************)

\* Methods the class SVBonyCamera of camera/svbony_camera.py defines.
SVBonyCameraMethods ==
    {"connect_ascom_camera", "set_ascom_settings", "capture_ascom_image",
     "connect_sdk_camera", "set_sdk_settings", "capture_sdk_image",
     "connect_camera", "configure_camera", "capture_image", "disconnect_camera"}

\* Attribute lookup camera.<name>: plate_solver.py is written against the
\* "previous" camera class (plate_solver.py line 6), which also offers
\* init_camera and close_camera; the class in camera/svbony_camera.py does not.
HasMethod(name) ==
    \/ name \in SVBonyCameraMethods
    \/ cameraApi = "previous" /\ name \in {"init_camera", "close_camera"}

\* connect_ascom_camera / connect_sdk_camera with driver outcome o:
\*   "dispatch_error"  creating the driver object raises;
\*   "connect_error"   the handle is stored, Connected = True / open() raises;
\*   "ok"              the handle is stored, the device connected, the flag set.
ConnectOutcomes == {"ok", "dispatch_error", "connect_error"}

\* self.camera is rebound to the new handle; a handle it held before is
\* dropped without a disconnect / close, and whether dropping it closes the
\* device (released) is up to the driver.  camConnected, exposing and
\* imageReady are the properties of the handle self.camera is bound to.
ConnectCamera(o) ==
    /\ camera' = IF o = "dispatch_error" THEN camera ELSE "drv"
    /\ camConnected' = IF o = "dispatch_error" THEN camConnected ELSE o = "ok"
    /\ connected' = IF o = "ok" THEN TRUE ELSE connected
    /\ \E released \in BOOLEAN :
          camOpen' = CASE o = "dispatch_error" -> camOpen
                       [] camConnected /\ released -> camOpen - 1 + (IF o = "ok" THEN 1 ELSE 0)
                       [] OTHER -> camOpen + (IF o = "ok" THEN 1 ELSE 0)
    /\ UNCHANGED <<use_ascom, exposing, imageReady, configured>>

\* plate_solver.py line 65, first operand, bound to the class of
\* camera/svbony_camera.py: the attribute lookup raises outside the try block.
main_init_camera_missing ==
    /\ program = "plate_solver" /\ pc = "init_camera"
    /\ ~HasMethod("init_camera")
    /\ Raise("AttributeError")
    /\ UNCHANGED <<fixed, camObj, camDrv, telescope, mntDrv, solver, calls>>

\* plate_solver.py line 65, first operand, bound to the previous class:
\* init_camera connects and answers True or False; False makes main return
\* at line 67.
init_camera ==
    /\ program = "plate_solver" /\ pc = "init_camera"
    /\ HasMethod("init_camera")
    /\ \E o \in ConnectOutcomes :
          /\ ConnectCamera(o)
          /\ IF o = "ok"
             THEN Goto("connect_to_telescope")
             ELSE InitFailed
    /\ calls' = Count("connect_camera")
    /\ UNCHANGED <<fixed, telescope, mntDrv, solver>>

\* svbony_camera.py line 155: connect_camera; an exception reaches the
\* program's except clause.
connect_camera ==
    /\ program \in {"svbony_camera", "client"} /\ pc = "connect_camera"
    /\ \E o \in ConnectOutcomes :
          /\ ConnectCamera(o)
          /\ IF o = "ok"
             THEN Goto(Caller("configure_camera"))
             ELSE Raise("DriverError")
    /\ calls' = Count("connect_camera")
    /\ UNCHANGED <<fixed, telescope, mntDrv, solver>>

\* configure_camera (plate_solver.py line 72 passes the exposure as
\* exposure_ms, the previous class's parameter name) with driver outcome o:
\*   "exposure_error"    setting the exposure raises;
\*   "gain_unsupported"  setting the gain raises AttributeError (ASCOM) or the
\*                       SDK's error for an unsupported control;
\*   "gain_error"        setting the gain raises another error;
\*   "ok"                both are applied.
\* Only the ASCOM variant catches, and only AttributeError.  A device with
\* no gain control answers the gain setting with "gain_unsupported".
ConfigureOutcomes == {"ok", "exposure_error", "gain_unsupported", "gain_error"}

ConfigureRaises(o) ==
    CASE o = "ok" -> "none"
      [] o = "exposure_error" -> "DriverError"
      [] o = "gain_unsupported" -> IF use_ascom THEN "none" ELSE "DriverError"
      [] o = "gain_error" -> "DriverError"

configure_camera ==
    /\ pc = "configure_camera"
    /\ calls' = Count("configure_camera")
    /\ IF ~connected
       THEN Raise("ConnectionError") /\ UNCHANGED configured
       ELSE \E o \in ConfigureOutcomes :
               /\ o \in {"ok", "gain_error"} => gainSupported
               /\ o = "gain_unsupported" => ~gainSupported
               /\ configured' = CASE o = "ok" -> "full"
                                  [] o = "exposure_error" -> configured
                                  [] OTHER -> "exposure"
               /\ IF ConfigureRaises(o) = "none"
                  THEN IF o = "gain_unsupported"
                       THEN GotoPrint(Caller("capture_image"), "gain not supported")
                       ELSE Goto(Caller("capture_image"))
                  ELSE Raise(ConfigureRaises(o))
    /\ UNCHANGED <<fixed, camObj, camConnected, exposing, imageReady, camOpen,
                   telescope, mntDrv, solver>>

\* Where control goes when capture_image returns normally.
AfterCapture == IF program = "plate_solver" THEN "solve_image" ELSE Finally

\* capture_image: the connected check, then capture_ascom_image up to
\* StartExposure, or the whole of capture_sdk_image (capture_frame blocks).
CaptureOutcomes == {"ok", "error", "no_frame"}

capture_image ==
    /\ pc = "capture_image"
    /\ IF ~connected
       THEN /\ Raise("ConnectionError")
            /\ calls' = Count("capture_image")
            /\ UNCHANGED <<exposing, imageReady, imageFile>>
       ELSE \E o \in CaptureOutcomes :
               IF use_ascom
               THEN /\ o # "no_frame"
                    /\ IF o = "ok"
                       THEN /\ exposing' = TRUE
                            /\ imageReady' = FALSE
                            /\ calls' = [calls EXCEPT !["capture_image"] = @ + 1,
                                                      !["StartExposure"] = @ + 1]
                            /\ Goto("capture_poll")
                       ELSE /\ Raise("DriverError")
                            /\ calls' = Count("capture_image")
                            /\ UNCHANGED <<exposing, imageReady>>
                    /\ UNCHANGED imageFile
               ELSE /\ calls' = Count("capture_image")
                    /\ imageFile' = IF o = "ok" THEN TRUE ELSE imageFile
                    /\ CASE o = "error" -> Raise("DriverError")
                         [] o = "no_frame" -> GotoPrint(AfterCapture, "Failed to capture")
                         [] o = "ok" -> Goto(AfterCapture)
                    /\ UNCHANGED <<exposing, imageReady>>
    /\ UNCHANGED <<fixed, camObj, camConnected, configured, camOpen, telescope,
                   mntDrv, solved, solvedAt>>

\* capture_poll without the wait: the loop is left although the image is
\* not ready.
capture_poll_nowait ==
    /\ pc = "capture_poll"
    /\ \/ Goto("capture_retrieve")
       \/ Raise("DriverError")
    /\ UNCHANGED <<fixed, camObj, camDrv, telescope, mntDrv, solver, calls>>

\* capture_ascom_image line 56: one evaluation of `while not ImageReady`.
capture_poll ==
    /\ pc = "capture_poll"
    /\ \/ IF imageReady THEN Goto("capture_retrieve") ELSE Goto("capture_sleep")
       \/ Raise("DriverError")
    /\ UNCHANGED <<fixed, camObj, camDrv, telescope, mntDrv, solver, calls>>

\* capture_ascom_image line 57: time.sleep(0.1).
capture_sleep ==
    /\ pc = "capture_sleep"
    /\ Goto("capture_poll")
    /\ UNCHANGED <<fixed, camObj, camDrv, telescope, mntDrv, solver, calls>>

\* capture_ascom_image lines 59-63: read ImageArray, write the file.
capture_retrieve ==
    /\ pc = "capture_retrieve"
    /\ \/ imageFile' = TRUE /\ Goto(AfterCapture)
       \/ imageFile' = imageFile /\ Raise("DriverError")
    /\ UNCHANGED <<fixed, camObj, camDrv, telescope, mntDrv, solved, solvedAt, calls>>

\* The camera finishes the exposure it was asked for.
ExposureCompletes ==
    /\ exposing
    /\ exposing' = FALSE
    /\ imageReady' = TRUE
    /\ UNCHANGED <<fixed, pc, exc, outcome, camObj, camConnected, configured,
                   camOpen, telescope, mntDrv, solver, printed, calls>>

\* disconnect_camera without the guard on the flag: the driver is told to
\* disconnect whatever the flag says.
DisconnectCamera_unguarded(ok) ==
    /\ camConnected' = IF ok THEN FALSE ELSE camConnected
    /\ camOpen' = IF ok /\ camConnected THEN camOpen - 1 ELSE camOpen
    /\ connected' = IF ok THEN FALSE ELSE connected
    /\ calls' = IF ok
                THEN [calls EXCEPT !["disconnect_camera"] = @ + 1,
                                   !["camDisconnect"] = @ + 1]
                ELSE Count("disconnect_camera")

\* disconnect_camera with driver outcome ok (TRUE) or raising (FALSE): the
\* flag is cleared only when the driver call returned.
DisconnectCamera(ok) ==
    IF connected
    THEN /\ camConnected' = IF ok THEN FALSE ELSE camConnected
         /\ camOpen' = IF ok /\ camConnected THEN camOpen - 1 ELSE camOpen
         /\ connected' = IF ok THEN FALSE ELSE connected
         /\ calls' = IF ok
                     THEN [calls EXCEPT !["disconnect_camera"] = @ + 1,
                                        !["camDisconnect"] = @ + 1]
                     ELSE Count("disconnect_camera")
    ELSE /\ ok
         /\ connected' = FALSE
         /\ UNCHANGED <<camConnected, camOpen>>
         /\ calls' = Count("disconnect_camera")

\* svbony_camera.py line 168: the camera program's finally block.
disconnect_camera ==
    /\ program \in {"svbony_camera", "client"} /\ pc = "disconnect_camera"
    /\ \E ok \in BOOLEAN :
          /\ DisconnectCamera(ok)
          /\ IF ok THEN Finish ELSE Raise("DriverError")
    /\ UNCHANGED <<fixed, use_ascom, camera, exposing, imageReady, configured,
                   telescope, mntDrv, solver>>

\* plate_solver.py line 93: close_camera of the previous class, the
\* disconnect of the camera.
close_camera ==
    /\ program = "plate_solver" /\ pc = "close_camera"
    /\ IF ~HasMethod("close_camera")
       THEN /\ Raise("AttributeError")
            /\ UNCHANGED <<connected, camConnected, camOpen, calls>>
       ELSE \E ok \in BOOLEAN :
               /\ DisconnectCamera(ok)
               /\ IF ok THEN Goto("disconnect_telescope") ELSE Raise("DriverError")
    /\ UNCHANGED <<fixed, use_ascom, camera, exposing, imageReady, configured,
                   telescope, mntDrv, solver>>

(***************************************************************************)
(* PlateSolver                                                             *)
(***************************************************************************)

\* plate_solver.py lines 76-77: PlateSolver(local_solver=True).solve_image:
\* solve-field runs; with no .wcs file FileNotFoundError is raised, else
\* parse_wcs reads the position (and raises on a header without CRVAL1/2).
SolveOutcomes == {"solved", "no_wcs", "malformed"}

solve_image ==
    /\ program = "plate_solver" /\ pc = "solve_image"
    /\ calls' = Count("solve_image")
    /\ \E o \in SolveOutcomes, p \in Positions :
          /\ o = "no_wcs" \/ imageFile
          /\ IF o = "solved"
             THEN /\ solved' = p
                  /\ solvedAt' = mntPos
                  /\ Goto("slew_to_altaz")
             ELSE /\ UNCHANGED <<solved, solvedAt>>
                  /\ Raise(IF o = "no_wcs" THEN "FileNotFoundError" ELSE "KeyError")
    /\ UNCHANGED <<fixed, camObj, camDrv, telescope, mntDrv, imageFile>>

(***************************************************************************)
(* AltAzTelescopeController                                                *)
(***************************************************************************)

\* connect_to_telescope with outcome o; every exception is caught and
\* answered with False:
\*   "no_selection"    the chooser fails or nothing is chosen;
\*   "dispatch_error"  creating the driver object raises;
\*   "connect_error"   the handle is stored, reading or setting Connected raises;
\*   "ok"              the handle is stored and the mount connected.
TelescopeOutcomes == {"ok", "no_selection", "dispatch_error", "connect_error"}

connect_to_telescope ==
    /\ pc = "connect_to_telescope"
    /\ calls' = Count("connect_to_telescope")
    /\ \E o \in TelescopeOutcomes :
          /\ telescope' = IF o \in {"ok", "connect_error"} THEN "drv" ELSE telescope
          /\ mntConnected' = IF o = "ok" THEN TRUE ELSE mntConnected
          /\ IF o = "ok"
             THEN Goto(CASE program = "plate_solver" -> "configure_camera"
                         [] program = "ascom_telescope" -> "slew_to_altaz"
                         [] program = "client" -> "idle")
             ELSE InitFailed
    /\ UNCHANGED <<fixed, camObj, camDrv, slewing, mntPos, commanded, solver>>

\* slew_to_altaz returns to its caller: plate_solver.py goes on to line 89 and
\* the finally block, ascom_telescope.py to its finally block.
SlewReturn(msg) ==
    /\ pc' = Finally
    /\ printed' = printed \cup {msg} \cup
                    (IF program = "plate_solver" THEN {"success"} ELSE {})
    /\ UNCHANGED <<exc, outcome>>

\* slew_to_altaz lines 43-45 (after plate_solver.py lines 79-86): the slew
\* command; an exception is caught at line 53 and the method returns.  With
\* self.telescope None line 45 raises AttributeError; a driver that is not
\* connected rejects the command.
slew_to_altaz ==
    /\ pc = "slew_to_altaz"
    /\ \/ /\ telescope # "None" /\ mntConnected
          /\ slewing' = TRUE
          /\ commanded' = SlewArgs
          /\ calls' = [calls EXCEPT !["slew_to_altaz"] = @ + 1,
                                    !["SlewToAltAz"] = @ + 1]
          /\ Goto("slew_poll")
       \/ /\ calls' = Count("slew_to_altaz")
          /\ SlewReturn("Error during slew")
          /\ UNCHANGED <<slewing, commanded>>
    /\ UNCHANGED <<fixed, camObj, camDrv, telescope, mntConnected, mntPos,
                   solver>>

\* slew_to_altaz line 48: one evaluation of `while self.telescope.Slewing`;
\* an exception is caught at line 53 and the method returns.
slew_poll ==
    /\ pc = "slew_poll"
    /\ \/ IF slewing
          THEN Goto("slew_sleep")
          ELSE SlewReturn("Slew complete")
       \/ SlewReturn("Error during slew")
    /\ UNCHANGED <<fixed, camObj, camDrv, telescope, mntDrv, solver, calls>>

\* slew_to_altaz lines 49-50: print and time.sleep(1).
slew_sleep ==
    /\ pc = "slew_sleep"
    /\ Goto("slew_poll")
    /\ UNCHANGED <<fixed, camObj, camDrv, telescope, mntDrv, solver, calls>>

\* The mount ends its slew, at the commanded position or elsewhere.
SlewCompletes ==
    /\ slewing
    /\ slewing' = FALSE
    /\ mntPos' \in Positions
    /\ UNCHANGED <<fixed, pc, exc, outcome, camObj, camDrv, telescope,
                   mntConnected, commanded, solver, printed, calls>>

\* disconnect_telescope: reads Connected, then sets it to False; either
\* driver access may raise.
disconnect_telescope ==
    /\ pc = "disconnect_telescope"
    /\ \/ /\ mntConnected' = IF telescope # "None" THEN FALSE ELSE mntConnected
          /\ calls' = IF telescope # "None" /\ mntConnected
                      THEN [calls EXCEPT !["disconnect_telescope"] = @ + 1,
                                         !["mntDisconnect"] = @ + 1]
                      ELSE Count("disconnect_telescope")
          /\ Finish
       \/ /\ telescope # "None"
          /\ UNCHANGED mntConnected
          /\ calls' = Count("disconnect_telescope")
          /\ Raise("DriverError")
    /\ UNCHANGED <<fixed, camObj, camDrv, telescope, slewing, mntPos, commanded,
                   solver>>

(***************************************************************************)
(* The user                                                                *)
(***************************************************************************)

\* Ctrl-C while the program sleeps in a wait loop: KeyboardInterrupt is no
\* Exception, so no `except Exception` clause catches it.
user_cancel ==
    /\ pc \in {"capture_sleep", "slew_sleep"}
    /\ Raise("KeyboardInterrupt")
    /\ UNCHANGED <<fixed, camObj, camDrv, telescope, mntDrv, solver, calls>>

(***************************************************************************)
(* The client                                                              *)
(***************************************************************************)

\* The public methods of the two classes.
ClientMethods == {"connect_camera", "configure_camera", "capture_image",
                  "disconnect_camera", "connect_to_telescope", "slew_to_altaz",
                  "disconnect_telescope"}

\* Number of method calls the client makes at most.
MaxCalls == 4

RECURSIVE Sum(_, _)
Sum(f, S) == IF S = {} THEN 0
             ELSE LET x == CHOOSE y \in S : TRUE IN f[x] + Sum(f, S \ {x})

\* Number of method calls made so far.
Issued == Sum(calls, ClientMethods)

\* The client calls a method of its camera or of its telescope object; what
\* the previous call raised is dropped.
client_call ==
    /\ program = "client" /\ pc = "idle"
    /\ Issued < MaxCalls
    /\ \E m \in ClientMethods :
          /\ pc' = m
          /\ callSeq' = <<IF exc = "none" THEN callSeq[2] ELSE "raised", m>>
    /\ exc' = "none"
    /\ UNCHANGED <<program, cameraApi, target, gainSupported, sessions, outcome,
                   camObj, camDrv, telescope, mntDrv, solver, printed, calls>>

InitApi ==
    /\ program = "client"
    /\ cameraApi = "src"
    /\ pc = "idle"
    /\ exc = "none"
    /\ outcome = "running"
    /\ use_ascom \in BOOLEAN
    /\ camera = "None"
    /\ connected = FALSE
    /\ camConnected = FALSE
    /\ exposing = FALSE
    /\ imageReady = FALSE
    /\ configured = "none"
    /\ telescope = "None"
    /\ mntConnected \in BOOLEAN
    /\ slewing = FALSE
    /\ mntPos = <<45, 90>>
    /\ commanded = NoPos
    /\ target = <<45, 90>>
    /\ imageFile = FALSE
    /\ solved = NoPos
    /\ solvedAt = NoPos
    /\ printed = {}
    /\ calls = [op \in Operations |-> 0]
    /\ gainSupported \in BOOLEAN
    /\ camOpen = 0
    /\ callSeq = <<"none", "none">>
    /\ NoSessions

NextApi ==
    \/ client_call
    \/ connect_camera
    \/ configure_camera
    \/ capture_image
    \/ capture_poll
    \/ capture_sleep
    \/ capture_retrieve
    \/ disconnect_camera
    \/ connect_to_telescope
    \/ slew_to_altaz
    \/ slew_poll
    \/ slew_sleep
    \/ disconnect_telescope
    \/ ExposureCompletes
    \/ SlewCompletes
    \/ user_cancel

SpecApi == InitApi /\ [][NextApi]_vars

(***************************************************************************)
(* Concurrent sessions                                                     *)
(***************************************************************************)

\* The state of a single program and its devices.
single == <<program, cameraApi, target, gainSupported, callSeq, pc, exc,
            outcome, camObj, camDrv, telescope, mntDrv, solver, printed, calls>>

\* plate_solver.py lines 71-73 with svbony_camera.py line 62: the session's
\* capture writes the image to "plate_solve_image.png" in the working
\* directory, or raises and ends the session.
session_capture_image(s) ==
    /\ sessionPc[s] = "capture_image"
    /\ \/ /\ imageOf' = s
          /\ sessionPc' = [sessionPc EXCEPT ![s] = "solve_field_read"]
       \/ /\ imageOf' = imageOf
          /\ sessionPc' = [sessionPc EXCEPT ![s] = "raised"]
    /\ UNCHANGED <<single, wcsOf, solvedImage, result>>

\* plate_solver.py lines 28-29: solve-field reads the image file.
session_solve_field_read(s) ==
    /\ sessionPc[s] = "solve_field_read"
    /\ solvedImage' = [solvedImage EXCEPT ![s] = imageOf]
    /\ sessionPc' = [sessionPc EXCEPT ![s] = "solve_field_write"]
    /\ UNCHANGED <<single, imageOf, wcsOf, result>>

\* plate_solver.py lines 28-29: solve-field --overwrite ends: it writes
\* "plate_solve_image.wcs" for the image it read, or finds no match; whether
\* it then removes a .wcs file of an earlier run is up to solve-field.
session_solve_field_write(s) ==
    /\ sessionPc[s] = "solve_field_write"
    /\ \/ wcsOf' = solvedImage[s]
       \/ wcsOf' \in {0, wcsOf}
    /\ sessionPc' = [sessionPc EXCEPT ![s] = "path_exists"]
    /\ UNCHANGED <<single, imageOf, solvedImage, result>>

\* plate_solver.py lines 30-35: os.path.exists on the .wcs path; without the
\* file FileNotFoundError ends the session.
session_path_exists(s) ==
    /\ sessionPc[s] = "path_exists"
    /\ sessionPc' = [sessionPc EXCEPT ![s] = IF wcsOf # 0 THEN "parse_wcs"
                                                        ELSE "raised"]
    /\ UNCHANGED <<single, imageOf, wcsOf, solvedImage, result>>

\* plate_solver.py lines 51-56: parse_wcs opens the .wcs file and returns the
\* position in it; fits.open raises if the file is gone.
session_parse_wcs(s) ==
    /\ sessionPc[s] = "parse_wcs"
    /\ result' = [result EXCEPT ![s] = wcsOf]
    /\ sessionPc' = [sessionPc EXCEPT ![s] = IF wcsOf # 0 THEN "solved"
                                                        ELSE "raised"]
    /\ UNCHANGED <<single, imageOf, wcsOf, solvedImage>>

\* NumSessions runs of plate_solver.main, each with its own devices, about
\* to capture; the working directory holds no file of an earlier run.
InitSessions ==
    /\ program = "sessions"
    /\ cameraApi = "previous"
    /\ pc = "sessions"
    /\ exc = "none"
    /\ outcome = "running"
    /\ use_ascom = TRUE
    /\ camera = "drv"
    /\ connected = TRUE
    /\ camConnected = TRUE
    /\ exposing = FALSE
    /\ imageReady = FALSE
    /\ configured = "full"
    /\ telescope = "drv"
    /\ mntConnected = TRUE
    /\ slewing = FALSE
    /\ mntPos = <<45, 90>>
    /\ commanded = NoPos
    /\ target = <<45, 90>>
    /\ imageFile = FALSE
    /\ solved = NoPos
    /\ solvedAt = NoPos
    /\ printed = {}
    /\ calls = [op \in Operations |-> 0]
    /\ gainSupported = TRUE
    /\ camOpen = 1
    /\ callSeq = <<"none", "none">>
    /\ sessionPc = [s \in Sessions |-> "capture_image"]
    /\ imageOf = 0
    /\ wcsOf = 0
    /\ solvedImage = [s \in Sessions |-> 0]
    /\ result = [s \in Sessions |-> 0]

NextSessions ==
    \E s \in Sessions :
        \/ session_capture_image(s)
        \/ session_solve_field_read(s)
        \/ session_solve_field_write(s)
        \/ session_path_exists(s)
        \/ session_parse_wcs(s)

SpecSessions == InitSessions /\ [][NextSessions]_vars

ProgramStep ==
    \/ main_init_camera_missing
    \/ init_camera
    \/ connect_camera
    \/ connect_to_telescope
    \/ configure_camera
    \/ capture_image
    \/ capture_poll
    \/ capture_sleep
    \/ capture_retrieve
    \/ solve_image
    \/ slew_to_altaz
    \/ slew_poll
    \/ slew_sleep
    \/ close_camera
    \/ disconnect_camera
    \/ disconnect_telescope

Next ==
    \/ ProgramStep
    \/ ExposureCompletes
    \/ SlewCompletes
    \/ user_cancel

Spec == Init /\ [][Next]_vars

\* The interpreter always runs the next statement of the program; the devices
\* and the user are under no obligation.
LiveSpec == Spec /\ WF_vars(ProgramStep)

(***************************************************************************)
(* Properties                                                              *)
(***************************************************************************)

\* A correction session is a run of plate_solver.main.
Session == program = "plate_solver"

Ended == pc = "done"

\* C1: whichever way a correction session ends, the camera and the mount
\* have each received exactly one disconnect call by then.
C1_ExactlyOneDisconnectEach ==
    (Session /\ Ended) =>
        /\ calls["disconnect_camera"] = 1
        /\ calls["disconnect_telescope"] = 1

\* C2: a session ends with an outcome of its own; no exception of the
\* camera, the solver or the mount leaves the session unhandled.
C2_NoFaultEscapes ==
    (Session /\ Ended) => exc = "none"

\* C3: when session start fails after connecting one device, that device is
\* disconnected before session start returns.
C3_FailedStartLeavesNothingConnected ==
    (Session /\ Ended /\ outcome = "init_failed") => ~connected /\ ~camConnected

\* C4: in the session's cleanup a failed disconnect of the camera does not
\* keep the disconnect of the mount from being attempted.
C4_MountDisconnectAttemptedAfterCameraFailure ==
    (Session /\ Ended /\ calls["disconnect_camera"] = 1 /\ connected) =>
        calls["disconnect_telescope"] = 1

\* C5: a session whose every solve attempt failed has made exactly the
\* maximum number of solve attempts, 3, when it ends.
C5_ExactlyMaxSolveAttempts ==
    (Session /\ Ended /\ calls["solve_image"] > 0 /\ solved = NoPos) =>
        calls["solve_image"] = 3

\* C6: with a solver that returned the true pointing and a mount that ended
\* its slew at the commanded position, a session that completes has
\* converged: the mount points at the target.
C6_ExactSolverAndMountConverge ==
    (/\ Session /\ Ended /\ outcome = "completed"
     /\ solved # NoPos /\ solved = solvedAt
     /\ "Slew complete" \in printed /\ "Error during slew" \notin printed
     /\ ~slewing /\ (commanded # NoPos => mntPos = commanded)) =>
        mntPos = target

\* C7: a session ends in success only at an iteration whose solved position
\* is within tolerance of the target; after a solve outside the tolerance it
\* slews, captures and solves again.
C7_SuccessOnlyWithinTolerance ==
    (Session /\ Ended /\ outcome = "completed" /\ "success" \in printed) =>
        solved = target

\* A capture is in flight: the exposure was started and the image is not
\* ready.  A slew is in flight: the slew was commanded and the mount reports
\* Slewing.
CaptureInFlight == calls["StartExposure"] > 0 /\ exposing
SlewInFlight == commanded # NoPos /\ slewing

\* C8: a capture and a slew are never in flight at the same time.
C8_OneOperationInFlight == ~(CaptureInFlight /\ SlewInFlight)

\* C8 witness: a session's slew is in flight after its capture has ended.
C8_Witness ==
    /\ Session
    /\ SlewInFlight
    /\ calls["StartExposure"] = 1 /\ ~exposing /\ imageFile

\* C9: every wait on a device is bounded, so every program run reaches its
\* end.
C9_AlwaysTerminates == <>Ended

\* C10: after a user cancellation no disconnect is issued to the mount
\* while the mount still reports that it is slewing.
C10_NoDisconnectMidSlewOnCancel ==
    [][(exc = "KeyboardInterrupt"
        /\ calls'["mntDisconnect"] > calls["mntDisconnect"]) => ~slewing]_vars

\* The statements of slew_to_altaz.
SlewStatements == {"slew_to_altaz", "slew_poll", "slew_sleep"}

\* C12: whenever slew_to_altaz returns to its caller, on the normal path and
\* on the paths where the command or a poll failed, the mount is not slewing.
C12_SlewReturnsOnlyWhenSettled ==
    [][(pc \in SlewStatements /\ pc' = Finally /\ exc' = "none") => ~slewing']_vars

\* C13: a session that met an error during its slew never reports success.
C13_NoSuccessAfterFailedSlew ==
    Session => ~("Error during slew" \in printed /\ "success" \in printed)

\* C14: every slew a session issues is commanded to the horizontal position
\* of the configured target.
C14_SlewCommandedToTarget ==
    (Session /\ commanded # NoPos) => commanded = target

\* C15: a session whose capture produced no image ends as an aborted
\* session, with no fault escaping, and has never entered the solve step.
C15_FailedCaptureAbortsBeforeSolve ==
    (Session /\ Ended /\ calls["capture_image"] > 0 /\ ~imageFile) =>
        (exc = "none" /\ calls["solve_image"] = 0)

\* C16: solve_image never raises: a solve that finds no match or reads a
\* malformed result returns a Failed result.
C16_SolveNeverRaises ==
    [][pc = "solve_image" => exc' = "none"]_vars

\* The client's call at statement m returns or raises in this step.
Returns(m) == program = "client" /\ pc = m /\ pc' = "idle"

\* The commands the camera and the mount have accepted.
DeviceCommands == <<calls["StartExposure"], calls["camDisconnect"],
                    calls["SlewToAltAz"], calls["mntDisconnect"], configured>>

\* The telescope object holds a handle whose driver is connected.
MountConnected == telescope # "None" /\ mntConnected

\* C17: configure or capture on a camera that is not connected, and slew on
\* a mount that is not connected, fail with the not-connected error, send
\* no command and leave the connection state and the handles unchanged.
C17_NotConnectedOperationFails ==
    [][(\/ (Returns("configure_camera") \/ Returns("capture_image")) /\ ~connected
        \/ Returns("slew_to_altaz") /\ ~MountConnected)
       => /\ exc' = "ConnectionError"
          /\ UNCHANGED DeviceCommands
          /\ UNCHANGED <<camera, connected, camConnected, telescope,
                         mntConnected>>]_vars

\* C18: configuring a connected camera that has no gain control does not
\* fail, with either transport: once the exposure is applied the call
\* returns normally.
C18_UnsupportedGainDoesNotFail ==
    [][(Returns("configure_camera") /\ connected /\ ~gainSupported
        /\ configured' = "exposure") => exc' = "none"]_vars

\* The client's previous call was method m and returned normally, and its
\* current call is m again.
TwiceInARow(m) == callSeq = <<m, m>>

\* C19: disconnect is idempotent on both devices: a disconnect of a device
\* that is not connected sends no command, a disconnect that returns leaves
\* the device recorded as not connected, a disconnect of a connected device
\* that returns has sent one command, and the second of two disconnects in a
\* row sends none.
C19_DisconnectIdempotent ==
    [][/\ Returns("disconnect_camera") =>
            /\ ~connected => calls'["camDisconnect"] = calls["camDisconnect"]
            /\ exc' = "none" => ~connected'
            /\ (connected /\ exc' = "none") =>
                    calls'["camDisconnect"] = calls["camDisconnect"] + 1
            /\ TwiceInARow("disconnect_camera") =>
                    calls'["camDisconnect"] = calls["camDisconnect"]
       /\ Returns("disconnect_telescope") =>
            /\ ~MountConnected => calls'["mntDisconnect"] = calls["mntDisconnect"]
            /\ exc' = "none" => ~MountConnected'
            /\ (MountConnected /\ exc' = "none") =>
                    calls'["mntDisconnect"] = calls["mntDisconnect"] + 1
            /\ TwiceInARow("disconnect_telescope") =>
                    calls'["mntDisconnect"] = calls["mntDisconnect"]]_vars

\* C19 witness: the client connected each device and then disconnected it
\* twice in a row; each device got one disconnect command.
C19_Witness ==
    /\ program = "client" /\ pc = "idle" /\ exc = "none"
    /\ \/ /\ TwiceInARow("disconnect_camera")
          /\ calls["disconnect_camera"] = 2 /\ calls["camDisconnect"] = 1
       \/ /\ TwiceInARow("disconnect_telescope")
          /\ calls["disconnect_telescope"] = 2 /\ calls["mntDisconnect"] = 1

\* C20: the camera object holds at most one open handle, the one it is bound
\* to, and its connected flag is true only while that handle is open.
C20_AtMostOneOpenHandle ==
    /\ camOpen = (IF camConnected THEN 1 ELSE 0)
    /\ connected => camConnected

\* C11: concurrent sessions share no state: the image a session's solver
\* reads and the result the session gets come from that session's own
\* capture.
C11_SessionsShareNoState ==
    \A s \in Sessions :
        /\ solvedImage[s] \in {0, s}
        /\ result[s] \in {0, s}

====
